---------------------------- MODULE Spec2Model ----------------------------
(***************************************************************************)
(* A model of pyrepl (src/pyrepl.py): a shell-like client that drives a    *)
(* remote Python-eval service over one unframed socket.                    *)
(*                                                                         *)
(* Representation.                                                         *)
(*   - A str (an input line, a path) is a sequence of one-character        *)
(*     strings: <<"c","d">> is "cd".                                        *)
(*   - File content (bytes) is run-length encoded: a sequence of           *)
(*     <<value, count>> runs, count > 0, adjacent values distinct.  This   *)
(*     keeps CHUNK at its real value of 65536.                             *)
(*   - Text on the wire is a sequence of pieces.  A piece is one character *)
(*     or a slice [lo, hi) of the base64 encoding of some bytes.           *)
(***************************************************************************)
EXTENDS Integers, Sequences, FiniteSets, TLC

\* pyrepl.py:32
CHUNK == 65536

----------------------------------------------------------------------------
(* str helpers (Python str methods on sequences of characters)             *)

Whitespace == {" ", "\t", "\n"}

\* str.startswith
StartsWith(s, p) == Len(s) >= Len(p) /\ SubSeq(s, 1, Len(p)) = p

\* s[n:]
From(s, n) == SubSeq(s, n + 1, Len(s))

RECURSIVE LStrip(_)
LStrip(s) == IF s # <<>> /\ Head(s) \in Whitespace THEN LStrip(Tail(s)) ELSE s

RECURSIVE RStrip(_)
RStrip(s) ==
    IF s # <<>> /\ s[Len(s)] \in Whitespace THEN RStrip(SubSeq(s, 1, Len(s) - 1)) ELSE s

\* str.strip()
Strip(s) == RStrip(LStrip(s))

\* str.rstrip("\n")
RECURSIVE RStripNL(_)
RStripNL(s) ==
    IF s # <<>> /\ s[Len(s)] = "\n" THEN RStripNL(SubSeq(s, 1, Len(s) - 1)) ELSE s

\* The length of the first whitespace-free token of s (s has no leading
\* whitespace).
RECURSIVE TokenLen(_)
TokenLen(s) == IF s = <<>> \/ Head(s) \in Whitespace THEN 0 ELSE 1 + TokenLen(Tail(s))

\* str.split(): the whitespace-delimited tokens of s.
RECURSIVE Split(_)
Split(s) ==
    LET t == LStrip(s)
        n == TokenLen(t)
    IN  IF t = <<>> THEN <<>> ELSE <<SubSeq(t, 1, n)>> \o Split(From(t, n))

\* str.split(maxsplit=1): the first token, then the rest of the line with
\* its leading whitespace removed (trailing whitespace kept), if any.
Split1(s) ==
    LET t == LStrip(s)
        n == TokenLen(t)
        r == LStrip(From(t, n))
    IN  IF t = <<>> THEN <<>>
        ELSE IF r = <<>> THEN <<SubSeq(t, 1, n)>>
        ELSE <<SubSeq(t, 1, n), r>>

----------------------------------------------------------------------------
(* bytes, run-length encoded                                               *)

RECURSIVE BLen(_)
BLen(b) == IF b = <<>> THEN 0 ELSE Head(b)[2] + BLen(Tail(b))

\* b[:k]
RECURSIVE BTake(_, _)
BTake(b, k) ==
    IF b = <<>> \/ k <= 0 THEN <<>>
    ELSE IF Head(b)[2] <= k THEN <<Head(b)>> \o BTake(Tail(b), k - Head(b)[2])
    ELSE << <<Head(b)[1], k>> >>

\* b[k:]
RECURSIVE BDrop(_, _)
BDrop(b, k) ==
    IF b = <<>> \/ k <= 0 THEN b
    ELSE IF Head(b)[2] <= k THEN BDrop(Tail(b), k - Head(b)[2])
    ELSE << <<Head(b)[1], Head(b)[2] - k>> >> \o Tail(b)

\* a + b
BCat(a, b) ==
    IF a = <<>> THEN b
    ELSE IF b = <<>> THEN a
    ELSE IF a[Len(a)][1] = b[1][1]
         THEN SubSeq(a, 1, Len(a) - 1)
              \o << <<b[1][1], a[Len(a)][2] + b[1][2]>> >> \o Tail(b)
    ELSE a \o b

\* f.seek(o); f.read(n)
BRead(b, o, n) == BTake(BDrop(b, o), n)

\* b[i], i from 0, i < BLen(b)
RECURSIVE BAt(_, _)
BAt(b, i) == IF i < Head(b)[2] THEN Head(b)[1] ELSE BAt(Tail(b), i - Head(b)[2])

----------------------------------------------------------------------------
(* Text on the wire                                                        *)

\* The base64 alphabet; B64Alphabet[v + 1] is the character of sextet v.
B64Alphabet ==
    << "A","B","C","D","E","F","G","H","I","J","K","L","M","N","O","P",
       "Q","R","S","T","U","V","W","X","Y","Z","a","b","c","d","e","f",
       "g","h","i","j","k","l","m","n","o","p","q","r","s","t","u","v",
       "w","x","y","z","0","1","2","3","4","5","6","7","8","9","+","/" >>

B64Chars == {B64Alphabet[i] : i \in 1..Len(B64Alphabet)}

DigitChars == <<"0","1","2","3","4","5","6","7","8","9">>

\* The length of base64.b64encode of n bytes.
B64Len(n) == 4 * ((n + 2) \div 3)

\* Character j (from 0) of base64.b64encode(data).
B64CharAt(data, j) ==
    LET n  == BLen(data)
        q  == j \div 4
        r  == j % 4
        b0 == BAt(data, 3 * q)
        b1 == IF 3 * q + 1 < n THEN BAt(data, 3 * q + 1) ELSE 0
        b2 == IF 3 * q + 2 < n THEN BAt(data, 3 * q + 2) ELSE 0
    IN  CASE r = 0 -> B64Alphabet[(b0 \div 4) + 1]
          [] r = 1 -> B64Alphabet[(b0 % 4) * 16 + (b1 \div 16) + 1]
          [] r = 2 -> IF 3 * q + 1 >= n THEN "="
                      ELSE B64Alphabet[(b1 % 16) * 4 + (b2 \div 64) + 1]
          [] r = 3 -> IF 3 * q + 2 >= n THEN "="
                      ELSE B64Alphabet[(b2 % 64) + 1]

\* A piece that is the one character c.
Ch(c) == [c |-> c, data |-> <<>>, lo |-> 0, hi |-> 1]

\* A piece that is characters [lo, hi) of base64.b64encode(data).
B64Piece(data, lo, hi) == [c |-> "", data |-> data, lo |-> lo, hi |-> hi]

IsB64Piece(p) == p.c = ""

\* str -> text
ToText(s) == [i \in 1..Len(s) |-> Ch(s[i])]

\* base64.b64encode(b).decode()
b64encode(b) == IF b = <<>> THEN <<>> ELSE <<B64Piece(b, 0, B64Len(BLen(b)))>>

PieceLen(p) == p.hi - p.lo

\* len(t), in characters
RECURSIVE TLen(_)
TLen(t) == IF t = <<>> THEN 0 ELSE PieceLen(Head(t)) + TLen(Tail(t))

\* t[:k]
RECURSIVE TTake(_, _)
TTake(t, k) ==
    IF t = <<>> \/ k <= 0 THEN <<>>
    ELSE IF PieceLen(Head(t)) <= k
         THEN <<Head(t)>> \o TTake(Tail(t), k - PieceLen(Head(t)))
    ELSE <<[Head(t) EXCEPT !.hi = Head(t).lo + k]>>

\* t[k:]
RECURSIVE TDrop(_, _)
TDrop(t, k) ==
    IF t = <<>> \/ k <= 0 THEN t
    ELSE IF PieceLen(Head(t)) <= k THEN TDrop(Tail(t), k - PieceLen(Head(t)))
    ELSE <<[Head(t) EXCEPT !.lo = Head(t).lo + k]>> \o Tail(t)

\* t[i], i from 0, i < TLen(t)
RECURSIVE TCharAt(_, _)
TCharAt(t, i) ==
    LET p == Head(t)
    IN  IF i < PieceLen(p)
        THEN IF IsB64Piece(p) THEN B64CharAt(p.data, p.lo + i) ELSE p.c
        ELSE TCharAt(Tail(t), i - PieceLen(p))

\* t.strip(): base64 text holds no whitespace, so only character pieces go.
RECURSIVE TLStrip(_)
TLStrip(t) ==
    IF t # <<>> /\ Head(t).c \in Whitespace THEN TLStrip(Tail(t)) ELSE t

RECURSIVE TRStrip(_)
TRStrip(t) ==
    IF t # <<>> /\ t[Len(t)].c \in Whitespace
    THEN TRStrip(SubSeq(t, 1, Len(t) - 1)) ELSE t

TStrip(t) == TRStrip(TLStrip(t))

\* t.startswith(s), s a str
TStartsWith(t, s) ==
    /\ TLen(t) >= Len(s)
    /\ \A i \in 1..Len(s) : TCharAt(t, i - 1) = s[i]

\* The value of the digit character c, or -1.
DigitVal(c) ==
    IF \E d \in 1..10 : DigitChars[d] = c
    THEN (CHOOSE d \in 1..10 : DigitChars[d] = c) - 1
    ELSE -1

\* str(n) for n >= 0
RECURSIVE IntToStr(_)
IntToStr(n) ==
    IF n < 10 THEN <<DigitChars[n + 1]>>
    ELSE IntToStr(n \div 10) \o <<DigitChars[(n % 10) + 1]>>

\* Whether int(t) succeeds on the stripped text t: decimal digits only (the
\* remote's size reply carries no sign and no underscore).
IsInt(t) ==
    /\ t # <<>>
    /\ \A i \in 1..TLen(t) : DigitVal(TCharAt(t, i - 1)) >= 0

\* int(t), for IsInt(t)
RECURSIVE IntOfDigits(_, _)
IntOfDigits(t, n) ==
    IF n = 0 THEN 0
    ELSE 10 * IntOfDigits(t, n - 1) + DigitVal(TCharAt(t, n - 1))

ParseInt(t) == IntOfDigits(t, TLen(t))

\* Bytes unrelated to any file's content: what decoding a misaligned
\* stretch of base64 characters yields.  No file of the model holds 255.
JunkRun(n) == IF n = 0 THEN <<>> ELSE << <<255, n>> >>

\* One step of base64.b64decode (validate=False) over the pieces of a text.
\* st.out: the bytes decoded so far; st.junk: the decoder has lost quad
\* alignment with the encoded data (st.jn data characters since then);
\* st.stop: a completed padding ended the decoding.
B64Feed(st, p) ==
    IF ~IsB64Piece(p)
    THEN IF p.c \in B64Chars
         THEN [st EXCEPT !.junk = TRUE, !.jn = @ + 1]
         ELSE st                      \* a character outside the alphabet is skipped
    ELSE IF st.junk \/ p.lo % 4 # 0
    THEN [st EXCEPT !.junk = TRUE, !.jn = @ + PieceLen(p)]
    ELSE LET n   == BLen(p.data)
             pad == (3 - (n % 3)) % 3
             b0  == 3 * (p.lo \div 4)
         IN  IF p.hi = B64Len(n)
             THEN [st EXCEPT !.out = BCat(@, BDrop(p.data, b0)), !.stop = pad > 0]
             ELSE [st EXCEPT
                      !.out  = BCat(@, BRead(p.data, b0, 3 * (p.hi \div 4) - b0)),
                      !.junk = p.hi % 4 # 0,
                      !.jn   = p.hi % 4]

RECURSIVE B64Fold(_, _)
B64Fold(t, st) ==
    IF t = <<>> \/ st.stop THEN st ELSE B64Fold(Tail(t), B64Feed(st, Head(t)))

\* base64.b64decode(t): ok is FALSE where Python raises binascii.Error (the
\* data characters do not fill whole quads).
b64decode(t) ==
    LET st == B64Fold(t, [out |-> <<>>, junk |-> FALSE, jn |-> 0, stop |-> FALSE])
    IN  [ok |-> st.jn % 4 = 0, data |-> BCat(st.out, JunkRun(3 * (st.jn \div 4)))]

----------------------------------------------------------------------------
(* Paths (os.path on the client, the working directory on the remote)      *)

\* The last index of character c in s, or 0.
RECURSIVE RFind(_, _)
RFind(s, c) ==
    IF s = <<>> THEN 0 ELSE IF s[Len(s)] = c THEN Len(s)
    ELSE RFind(SubSeq(s, 1, Len(s) - 1), c)

\* str.rstrip("/")
RECURSIVE RStripSlash(_)
RStripSlash(s) ==
    IF s # <<>> /\ s[Len(s)] = "/" THEN RStripSlash(SubSeq(s, 1, Len(s) - 1)) ELSE s

\* os.path.basename
basename(p) == From(p, RFind(p, "/"))

\* os.path.dirname
dirname(p) ==
    LET head == SubSeq(p, 1, RFind(p, "/"))
    IN  IF RStripSlash(head) # <<>> THEN RStripSlash(head) ELSE head

\* The components of p between slashes.
RECURSIVE Components(_)
Components(p) ==
    LET n == IF \E i \in 1..Len(p) : p[i] = "/"
             THEN (CHOOSE i \in 1..Len(p) : p[i] = "/" /\ \A j \in 1..(i - 1) : p[j] # "/") - 1
             ELSE Len(p)
    IN  IF n = Len(p) THEN <<p>>
        ELSE <<SubSeq(p, 1, n)>> \o Components(From(p, n + 1))

\* The components with "", "." dropped and ".." applied.
RECURSIVE Canon(_, _)
Canon(cs, acc) ==
    IF cs = <<>> THEN acc
    ELSE IF Head(cs) = <<>> \/ Head(cs) = <<".">> THEN Canon(Tail(cs), acc)
    ELSE IF Head(cs) = <<".", ".">>
         THEN Canon(Tail(cs), IF acc = <<>> THEN acc ELSE SubSeq(acc, 1, Len(acc) - 1))
    ELSE Canon(Tail(cs), Append(acc, Head(cs)))

RECURSIVE JoinSlash(_)
JoinSlash(cs) == IF cs = <<>> THEN <<>> ELSE <<"/">> \o Head(cs) \o JoinSlash(Tail(cs))

\* The absolute path that `target` names when the working directory is cwd
\* (what the remote's kernel resolves, and what getcwd() then returns).
Resolve(cwd, target) ==
    LET abs == IF StartsWith(target, <<"/">>) THEN target ELSE cwd \o <<"/">> \o target
        cs  == Canon(Components(abs), <<>>)
    IN  IF cs = <<>> THEN <<"/">> ELSE JoinSlash(cs)

\* The remote's directories, and the home directory of its user.
RemoteDirs == { <<"/">>, <<"/","a">>, <<"/","a","/","b">>, <<"/","h">> }
RemoteHome == <<"/","h">>

\* os.path.expanduser on the remote
expanduser(p) ==
    IF p = <<"~">> THEN RemoteHome
    ELSE IF StartsWith(p, <<"~","/">>) THEN RemoteHome \o From(p, 1)
    ELSE p

----------------------------------------------------------------------------
(* Payload builders.  A payload is the one expression a builder returns,   *)
(* kept as the builder's name and arguments: what the remote evaluates is  *)
(* decided by these alone.  The router's markers and a raw line are kept   *)
(* as their text.                                                          *)

Req(op, path, off, size, data, mode, text) ==
    [op |-> op, path |-> path, off |-> off, size |-> size, data |-> data,
     mode |-> mode, text |-> text]

\* build_payload's None
NoPayload == Req("None", <<>>, 0, 0, <<>>, "", <<>>)

build_expr_pwd == Req("pwd", <<>>, 0, 0, <<>>, "", <<>>)

build_expr_shell(cmd) == Req("shell", <<>>, 0, 0, <<>>, "", cmd)

\* arg is <<>> for Python's None (no str.split token is empty).
build_expr_cd(arg) ==
    IF arg = <<>> THEN Req("cd_home", <<>>, 0, 0, <<>>, "", <<>>)
    ELSE IF Strip(arg) = <<"-">> THEN Req("cd_dash", <<>>, 0, 0, <<>>, "", <<>>)
    ELSE IF Strip(arg) = <<".", ".">> THEN Req("cd_up", <<>>, 0, 0, <<>>, "", <<>>)
    ELSE Req("cd_path", Strip(arg), 0, 0, <<>>, "", <<>>)

build_expr_stat_size(path) == Req("stat", path, 0, 0, <<>>, "", <<>>)

build_expr_read_chunk_b64(path, offset, size) ==
    Req("read", path, offset, size, <<>>, "", <<>>)

build_expr_write_chunk_b64(path, b64data, mode) ==
    Req("write", path, 0, 0, b64data, IF mode = "wb" THEN "wb" ELSE "ab", <<>>)

\* The payload of a raw line, and the router's transfer markers: strings.
RawPayload(text) == Req("raw", <<>>, 0, 0, <<>>, "", text)
GetMarker == <<"_","_","G","E","T","_","_">>
PutMarker == <<"_","_","P","U","T","_","_">>
MarkerPayload(op, rest) == Req(op, <<>>, 0, 0, <<>>, "", rest)

\* payload router
build_payload(user_line) ==
    LET line == RStripNL(user_line)
    IN  IF line \in {<<"e","x","i","t">>, <<"q","u","i","t">>} THEN NoPayload
        ELSE IF StartsWith(line, <<":","r","a","w"," ">>) THEN RawPayload(From(line, 5) \o <<"\n">>)
        ELSE IF line = <<":","r","a","w">> THEN RawPayload(<<"\n">>)
        ELSE IF line = <<"p","w","d">> THEN build_expr_pwd
        ELSE IF StartsWith(line, <<"c","d">>)
             THEN LET parts == Split1(line)
                  IN  build_expr_cd(IF Len(parts) = 1 THEN <<>> ELSE parts[2])
        ELSE IF StartsWith(line, <<":","g","e","t"," ">>) THEN MarkerPayload("GET", From(line, 5))
        ELSE IF Strip(line) = <<":","g","e","t">> THEN MarkerPayload("GET", <<>>)
        ELSE IF StartsWith(line, <<":","p","u","t"," ">>) THEN MarkerPayload("PUT", From(line, 5))
        ELSE IF Strip(line) = <<":","p","u","t">> THEN MarkerPayload("PUT", <<>>)
        ELSE build_expr_shell(line)

\* payload.startswith(marker) in main: a builder's expression never starts
\* with a marker; a marker payload and a raw line's text may.
PayloadStartsWith(p, op, marker) ==
    \/ p.op = op
    \/ p.op = "raw" /\ StartsWith(p.text, marker)

\* payload[7:].strip().split() in main
PayloadParts(p) ==
    Split(Strip(IF p.op = "raw" THEN From(p.text, 7) ELSE p.text))

\* A command of the data model: its tag and up to two arguments, <<>> for
\* an absent one.
Cmd(tag, a, b) == [tag |-> tag, a |-> a, b |-> b]

NotRouted == Cmd("none", <<>>, <<>>)

\* pyrepl.py:139-166, 279-303: the command that build_payload and main's
\* dispatch make of a line.
CodeCommand(line) ==
    LET payload == build_payload(line)
        parts   == PayloadParts(payload)
    IN  IF payload = NoPayload THEN Cmd("Exit", <<>>, <<>>)
        ELSE IF PayloadStartsWith(payload, "GET", GetMarker)
        THEN Cmd("Get", IF Len(parts) > 0 THEN parts[1] ELSE <<>>,
                        IF Len(parts) > 1 THEN parts[2] ELSE <<>>)
        ELSE IF PayloadStartsWith(payload, "PUT", PutMarker)
        THEN Cmd("Put", IF Len(parts) > 0 THEN parts[1] ELSE <<>>,
                        IF Len(parts) > 1 THEN parts[2] ELSE <<>>)
        ELSE CASE payload.op = "raw"     -> Cmd("Raw", RStripNL(payload.text), <<>>)
               [] payload.op = "pwd"     -> Cmd("Pwd", <<>>, <<>>)
               [] payload.op = "cd_home" -> Cmd("ChangeDir", <<>>, <<>>)
               [] payload.op = "cd_dash" -> Cmd("ChangeDir", <<"-">>, <<>>)
               [] payload.op = "cd_up"   -> Cmd("ChangeDir", <<".", ".">>, <<>>)
               [] payload.op = "cd_path" -> Cmd("ChangeDir", payload.path, <<>>)
               [] OTHER                  -> Cmd("ShellExec", payload.text, <<>>)

----------------------------------------------------------------------------
(* The remote evaluator: what each builder's expression does when the      *)
(* service evaluates it.  Its state is the working directory (rcwd), the   *)
(* global PREV_VAR (rprev, NoPrev while the name is not in globals()) and  *)
(* its files (rfs, a function from absolute paths to bytes) and its        *)
(* directories (rdirs, a set of absolute paths).                           *)

VARIABLES rcwd, rprev, rfs, rdirs

NoPrev == <<>>

\* The result of one evaluation: the new state, whether the expression
\* raised, and the text it wrote to stdout.
Res(cwd, prev, fs, raised, out) ==
    [cwd |-> cwd, prev |-> prev, fs |-> fs, raised |-> raised, out |-> out]

Raised == Res(rcwd, rprev, rfs, TRUE, <<>>)

\* os.chdir(target) succeeds
ChdirOk(target) == target # <<>> /\ Resolve(rcwd, target) \in rdirs

ChangedMsg(cwd) == ToText(<<"C","h","a","n","g","e","d"," ","d","i","r","e","c","t","o","r","y"," ","t","o",":"," ">> \o cwd \o <<"\n">>)
NoPrevMsg == ToText(<<"N","o"," ","p","r","e","v","i","o","u","s"," ","d","i","r","e","c","t","o","r","y","\n">>)
NotFoundMsg == ToText(<<"E","R","R",":"," ","n","o","t"," ","f","o","u","n","d","\n">>)

\* pyrepl.py:38-39
EvalPwd == Res(rcwd, rprev, rfs, FALSE, ToText(rcwd \o <<"\n">>))

\* pyrepl.py:57-60: (chdir(expanduser('~')), write(msg))
EvalCdHome ==
    LET target == expanduser(<<"~">>)
    IN  IF ~ChdirOk(target) THEN Raised
        ELSE LET cwd1 == Resolve(rcwd, target)              \* chdir
             IN  Res(cwd1, rprev, rfs, FALSE, ChangedMsg(cwd1))

\* Mutant: cd - stores the directory it is leaving before it changes
\* directory.
EvalCdDash_StoreFirst ==
    IF rprev = NoPrev THEN Res(rcwd, rprev, rfs, FALSE, NoPrevMsg)
    ELSE IF ~ChdirOk(rprev) THEN Res(rcwd, rcwd, rfs, TRUE, <<>>)
    ELSE Res(Resolve(rcwd, rprev), rcwd, rfs, FALSE, ChangedMsg(Resolve(rcwd, rprev)))

\* Mutant: cd - changes directory and leaves the stored directory as it is.
EvalCdDash_NoSwap ==
    IF rprev = NoPrev THEN Res(rcwd, rprev, rfs, FALSE, NoPrevMsg)
    ELSE IF ~ChdirOk(rprev) THEN Raised
    ELSE Res(Resolve(rcwd, rprev), rprev, rfs, FALSE, ChangedMsg(Resolve(rcwd, rprev)))

\* pyrepl.py:64-75
EvalCdDash ==
    IF rprev = NoPrev THEN Res(rcwd, rprev, rfs, FALSE, NoPrevMsg)
    ELSE LET cur  == rcwd                                   \* __cur
             prev == rprev                                  \* __prev
         IN  IF ~ChdirOk(prev) THEN Raised
             ELSE LET cwd1 == Resolve(rcwd, prev)           \* chdir(__prev)
                  IN  Res(cwd1, cur, rfs, FALSE, ChangedMsg(cwd1))

\* Mutant: the message is built from the working directory read before the
\* chdir.
EvalCdUp_MsgBefore ==
    LET parent == dirname(rcwd)
    IN  IF ~ChdirOk(parent) THEN Raised
        ELSE Res(Resolve(rcwd, parent), rprev, rfs, FALSE, ChangedMsg(rcwd))

\* pyrepl.py:77-80
EvalCdUp ==
    LET parent == dirname(rcwd)                             \* __p
    IN  IF ~ChdirOk(parent) THEN Raised
        ELSE LET cwd1 == Resolve(rcwd, parent)
             IN  Res(cwd1, rprev, rfs, FALSE, ChangedMsg(cwd1))

\* pyrepl.py:82-90
EvalCdPath(arg) ==
    LET cur    == rcwd                                      \* __cur
        target == expanduser(arg)
    IN  IF ~ChdirOk(target) THEN Raised
        ELSE LET cwd1 == Resolve(rcwd, target)              \* chdir(target)
             IN  Res(cwd1, cur, rfs, FALSE, ChangedMsg(cwd1))

\* The file or directory that a path names on the remote.
RAbs(path) == Resolve(rcwd, path)
RExists(path) == path # <<>> /\ (RAbs(path) \in DOMAIN rfs \/ RAbs(path) \in rdirs)
RIsFile(path) == path # <<>> /\ RAbs(path) \in DOMAIN rfs

\* pyrepl.py:94-103; a directory exists and has a size of its own.
EvalStat(path) ==
    IF ~RExists(path) THEN Res(rcwd, rprev, rfs, FALSE, NotFoundMsg)
    ELSE LET size == IF RIsFile(path) THEN BLen(rfs[RAbs(path)]) ELSE 4096
         IN  Res(rcwd, rprev, rfs, FALSE, ToText(IntToStr(size) \o <<"\n">>))

\* pyrepl.py:105-119; open() of a directory raises.
EvalRead(path, o, n) ==
    IF ~RExists(path) THEN Res(rcwd, rprev, rfs, FALSE, NotFoundMsg)
    ELSE IF ~RIsFile(path) THEN Raised
    ELSE Res(rcwd, rprev, rfs, FALSE,
             b64encode(BRead(rfs[RAbs(path)], o, n)) \o ToText(<<"\n">>))

\* pyrepl.py:121-135; open() raises on a directory or in a missing one.
EvalWrite(path, b64, mode) ==
    LET p    == RAbs(path)
        dec  == b64decode(b64)
        old  == IF mode = "ab" /\ p \in DOMAIN rfs THEN rfs[p] ELSE <<>>
        fs0  == [q \in DOMAIN rfs \cup {p} |-> IF q = p THEN old ELSE rfs[q]]  \* open
        fs1  == [fs0 EXCEPT ![p] = BCat(old, dec.data)]                         \* write
    IN  IF path = <<>> \/ p \in rdirs \/ dirname(p) \notin rdirs THEN Raised
        ELSE IF ~dec.ok THEN Res(rcwd, rprev, fs0, TRUE, <<>>)
        ELSE Res(rcwd, rprev, fs1, FALSE, ToText(<<"O","K","\n">>))

\* What the service may write back for a shell command, a raw expression, or
\* an expression that raised: the service is not part of this repository.
FreeReplies == { <<>>, ToText(<<"x","\n">>) }

\* The evaluation of one request; free is the reply where the code does not
\* decide it.
Eval(req, free) ==
    LET r == CASE req.op = "pwd"     -> EvalPwd
               [] req.op = "cd_home" -> EvalCdHome
               [] req.op = "cd_dash" -> EvalCdDash
               [] req.op = "cd_up"   -> EvalCdUp
               [] req.op = "cd_path" -> EvalCdPath(req.path)
               [] req.op = "stat"    -> EvalStat(req.path)
               [] req.op = "read"    -> EvalRead(req.path, req.off, req.size)
               [] req.op = "write"   -> EvalWrite(req.path, req.data, req.mode)
               [] OTHER              -> Res(rcwd, rprev, rfs, FALSE, free)
    IN  IF r.raised THEN [r EXCEPT !.out = free] ELSE r

----------------------------------------------------------------------------
(* The session: main's loop, do_get and do_put, over the socket.           *)
(*                                                                         *)
(*   pc       where the client is: at the top of main's loop ("prompt"),   *)
(*            inside a recv_until_idle ("prompt_recv", "cmd_recv",         *)
(*            "get_stat", "get_chunk", "put_ack"), at input() ("input"),   *)
(*            at the head of a transfer loop ("get_loop", "put_loop"), or  *)
(*            past main's finally ("closed")                               *)
(*   xfer     the locals of the running or last do_get / do_put            *)
(*   lfs      the client's files, a function from paths to bytes           *)
(*   printed  what the client printed since the last input()               *)
(*   prompt   the text the last prompt was built from                      *)
(*   reqs     payloads sent and not yet evaluated by the remote            *)
(*   wire     text the remote wrote that no recv has returned yet          *)
(*   stale    how many characters at the head of wire were written in      *)
(*            reply to a request other than the last one sent (history)    *)
(*   sentlog  the payloads sent since the last input() (history)           *)
(*   ncmds    lines read so far; faults: idle timeouts that cut a reply    *)

VARIABLES pc, xfer, lfs, printed, prompt, reqs, wire, stale, sentlog, ncmds, faults

\* The number of lines a session reads, and of receives that return on an
\* idle timeout before the reply is complete.
MaxCmds == 2
MaxFaults == 1

Msg(k, n, path, t) == [k |-> k, n |-> n, path |-> path, t |-> t]

Xfer(kind, st, remote, local, total, offset, n, first) ==
    [kind |-> kind, st |-> st, remote |-> remote, local |-> local,
     total |-> total, offset |-> offset, n |-> n, first |-> first]

NoXfer == Xfer("none", "none", <<>>, <<>>, 0, 0, 0, FALSE)

\* The lines a user types in the session.
UserLines ==
    { <<":","g","e","t"," ","r">>, <<":","p","u","t"," ","r">>, <<":","p","u","t"," ","l"," ","r">>, <<":","g","e","t">>,
      <<":","p","u","t">>, <<":","p","u","t"," ","z","z">>, <<"p","w","d">>,
      <<"l","s">>, <<"c","d"," ","/">>, <<"e","x","i","t">>, <<":","r","a","w"," ","x">> }

\* The remote file /a/r at the start: empty, below one chunk, one chunk, a
\* chunk and a byte, 150000 bytes, and two files with a chunk (the second,
\* the first) that encodes to base64 text beginning with "ERR".
InitRemoteFiles ==
    { <<>>,
      << <<65, 5>> >>,
      << <<65, 65536>> >>,
      << <<65, 65536>>, <<66, 1>> >>,
      << <<65, 65536>>, <<66, 65536>>, <<67, 18928>> >>,
      << <<65, 65536>>, <<17, 1>>, <<20, 1>>, <<64, 2>> >>,
      << <<17, 1>>, <<20, 1>>, <<64, 65536>> >> }

\* The local file l at the start.
InitLocalFiles == { <<>>, << <<70, 65536>>, <<71, 2>> >> }

RemoteFile == <<"/","a","/","r">>
LocalFile == <<"l">>

\* sock.sendall(payload)
Send(req) ==
    /\ reqs' = Append(reqs, req)
    /\ sentlog' = Append(sentlog, req)
    /\ stale' = TLen(wire)

\* The lengths at which an idle timeout may end a recv_until_idle while w is
\* what the remote has written so far.
Cuts(w) == {k \in {0, 1, 2, 4, TLen(w) - 1, TLen(w)} : 0 <= k /\ k <= TLen(w)}

\* recv_until_idle returning the first k characters of the wire: all of it
\* once the remote has answered every request, or less (or what is there
\* while the remote is still silent) when the idle timeout elapses first.
CanRecv(k) ==
    \/ reqs = <<>> /\ k = TLen(wire)
    \/ faults < MaxFaults /\ k \in Cuts(wire)

Recv(k) ==
    /\ wire' = TDrop(wire, k)
    /\ faults' = IF reqs = <<>> /\ k = TLen(wire) THEN faults ELSE faults + 1
    /\ stale' = IF k < stale THEN stale - k ELSE 0

\* recv_until_idle(...).decode(errors="ignore").strip()
Resp(k) == TStrip(TTake(wire, k))

remoteVars == <<rcwd, rprev, rfs, rdirs>>

\* The ground of the router's classification (SpecRoute) and the history of
\* the cd expressions evaluated (SpecCd).
VARIABLES rline, routed, cdlog

\* History: the remote files at the start (orig); the line last read, and
\* how the command before it ended (hist).
VARIABLES orig, hist

\* The client's socket: how often main has shut it down and closed it, and
\* how main ended ("none" while it runs, "clean" by leaving the loop,
\* "error" by an exception that nothing caught).
VARIABLE sock

\* One call of recv_until_idle, byte by byte (SpecRecv): the output the
\* remote is to write (out) and how much of it is written (wpos), the bytes
\* in the socket that no recv has read (sbuf), the peer's end of the
\* connection (peer), the bytearray buf, whether the call is at its select
\* or has returned (st), and the number of writes so far (nw).
VARIABLE rx

groundVars == <<rline, routed, cdlog, orig, rx>>

otherVars == <<rline, routed, cdlog, orig, sock, rx>>

vars == <<rcwd, rprev, rfs, rdirs, pc, xfer, lfs, printed, prompt, reqs, wire, sentlog,
          ncmds, faults, rline, routed, cdlog, orig, hist, sock, rx, stale>>

Rx(out, wpos, nw, sbuf, peer, buf, st) ==
    [out |-> out, wpos |-> wpos, nw |-> nw, sbuf |-> sbuf, peer |-> peer, buf |-> buf,
     st |-> st]

\* pyrepl.py:171: buf = bytearray(), nothing written yet.
RxStart(out) == Rx(out, 0, 0, <<>>, "open", <<>>, "select")

SockOpen == [shuts |-> 0, closes |-> 0, end |-> "none"]

\* pyrepl.py:310-313: main's finally, reached by a break (how = "clean") or
\* by an exception on its way out of main (how = "error").
Finally(how) == [shuts |-> sock.shuts + 1, closes |-> sock.closes + 1, end |-> how]

\* Whether a reply is one of the remote's error sentinels ("ERR: ..."
\* written by the expression itself, not file data).
IsSentinel(t) ==
    /\ Len(t) >= 3
    /\ t[1].c = "E" /\ t[2].c = "R" /\ t[3].c = "R"

\* Whether one of the printed replies is an error sentinel.
SawSentinel(msgs) == \E i \in 1..Len(msgs) : msgs[i].k = "resp" /\ IsSentinel(msgs[i].t)

Hist(line, x, err) == [line |-> line, prevx |-> x, preverr |-> err]

\* pyrepl.py:264-270: the top of main's loop sends the pwd request.
PromptSend ==
    /\ pc = "prompt"
    /\ Send(build_expr_pwd)
    /\ pc' = "prompt_recv"
    /\ UNCHANGED <<remoteVars, xfer, lfs, printed, prompt, wire, ncmds, faults, hist, otherVars>>

\* pyrepl.py:267-270: the prompt is built from what the receive returned.
PromptRecv(k) ==
    /\ pc = "prompt_recv"
    /\ CanRecv(k)
    /\ Recv(k)
    /\ prompt' = Resp(k)
    /\ pc' = "input"
    /\ UNCHANGED <<remoteVars, xfer, lfs, printed, reqs, sentlog, ncmds, hist, otherVars>>

\* What a handler does up to its first receive or loop head: where the
\* client goes, the transfer's locals, what it prints and what it sends.
Start(p, x, msgs, sends) == [pc |-> p, xfer |-> x, printed |-> msgs, sends |-> sends]

\* os.path.isfile(local)
isfile(local) == local \in DOMAIN lfs

\* pyrepl.py:187-188: do_get sends the size query.
do_get_start(remote, local) ==
    Start("get_stat", Xfer("get", "run", remote, local, 0, 0, 0, FALSE), <<>>,
          <<build_expr_stat_size(remote)>>)

\* Mutant: the remote is asked about the target before the local check.
do_put_start_StatFirst(local, remote) ==
    IF local \notin DOMAIN lfs
    THEN Start("prompt", Xfer("put", "nolocal", remote, local, 0, 0, 0, FALSE),
               <<Msg("err_nolocal", 0, <<>>, <<>>)>>, <<build_expr_stat_size(local)>>)
    ELSE Start("put_loop",
               Xfer("put", "run", IF remote # <<>> THEN remote ELSE basename(local),
                    local, BLen(lfs[local]), 0, 0, TRUE),
               <<>>, <<>>)

\* pyrepl.py:217-225: do_put checks the local file, then enters its loop.
do_put_start(local, remote) ==
    IF ~isfile(local)
    THEN Start("prompt", Xfer("put", "nolocal", remote, local, 0, 0, 0, FALSE),
               <<Msg("err_nolocal", 0, <<>>, <<>>)>>, <<>>)
    ELSE Start("put_loop",
               Xfer("put", "run", IF remote # <<>> THEN remote ELSE basename(local),
                    local, BLen(lfs[local]), 0, 0, TRUE),
               <<>>, <<>>)

\* pyrepl.py:279-303: main routes the line and dispatches the payload.
Dispatch(line) ==
    LET payload == build_payload(line)
        parts   == PayloadParts(payload)
        second  == IF Len(parts) > 1 THEN parts[2] ELSE <<>>
    IN  IF payload = NoPayload THEN Start("closed", NoXfer, <<>>, <<>>)
        ELSE IF PayloadStartsWith(payload, "GET", GetMarker)
        THEN IF parts = <<>>
             THEN Start("prompt", Xfer("get", "usage", <<>>, <<>>, 0, 0, 0, FALSE),
                        <<Msg("usage_get", 0, <<>>, <<>>)>>, <<>>)
             ELSE do_get_start(parts[1], second)
        ELSE IF PayloadStartsWith(payload, "PUT", PutMarker)
        THEN IF parts = <<>>
             THEN Start("prompt", Xfer("put", "usage", <<>>, <<>>, 0, 0, 0, FALSE),
                        <<Msg("usage_put", 0, <<>>, <<>>)>>, <<>>)
             ELSE do_put_start(parts[1], second)
        ELSE Start("cmd_recv", NoXfer, <<>>, <<payload>>)

\* pyrepl.py:272-303: one line is read, routed and dispatched, up to the
\* first receive or loop head of its handler.
Input(line) ==
    /\ pc = "input"
    /\ ncmds < MaxCmds
    /\ ncmds' = ncmds + 1
    /\ LET d == Dispatch(line)
       IN  /\ pc' = d.pc
           /\ xfer' = d.xfer
           /\ printed' = d.printed
           /\ reqs' = reqs \o d.sends
           /\ sentlog' = d.sends
           /\ stale' = IF d.sends # <<>> THEN TLen(wire) ELSE stale
           /\ sock' = IF d.pc = "closed" THEN Finally("clean") ELSE sock
    /\ hist' = Hist(line, xfer, SawSentinel(printed))
    /\ UNCHANGED <<remoteVars, lfs, prompt, wire, faults, groundVars>>

\* pyrepl.py:274-277, 310-313: end of input or an interrupt at the prompt
\* ends the loop; finally shuts the socket down and closes it.
InputEnd ==
    /\ pc = "input"
    /\ pc' = "closed"
    /\ sock' = Finally("clean")
    /\ UNCHANGED <<remoteVars, xfer, lfs, printed, prompt, reqs, wire, stale, sentlog, ncmds,
                   faults, hist, groundVars>>

\* pyrepl.py:304-309: the reply of a simple command is printed as received.
CmdRecv(k) ==
    /\ pc = "cmd_recv"
    /\ CanRecv(k)
    /\ Recv(k)
    /\ printed' = IF k > 0 THEN Append(printed, Msg("out", 0, <<>>, TTake(wire, k)))
                  ELSE printed
    /\ pc' = "prompt"
    /\ UNCHANGED <<remoteVars, xfer, lfs, prompt, reqs, sentlog, ncmds, hist, otherVars>>

\* local or os.path.basename(remote) or "download.bin"
LocalPath(remote, local) ==
    IF local # <<>> THEN local
    ELSE IF basename(remote) # <<>> THEN basename(remote)
    ELSE <<"d","o","w","n","l","o","a","d",".","b","i","n">>

\* The chunk size do_get requests at an offset.
ChunkSize(total, offset) == IF CHUNK < total - offset THEN CHUNK ELSE total - offset

\* Mutant: the offset advances by the number of bytes decoded.
NextOffset_ByDecoded(offset, n, data) == offset + BLen(data)

\* The offset after a chunk of n requested bytes that decoded to data.
NextOffset(offset, n, data) == offset + n

\* resp.startswith("ERR")
IsErr(resp) == TStartsWith(resp, <<"E","R","R">>)

\* Mutant: a reply that is not an integer counts as a size.
StatOutcome_Lenient(resp) == IF IsErr(resp) THEN "err" ELSE "ok"

\* pyrepl.py:190-197: how do_get takes the size reply.
StatOutcome(resp) ==
    IF IsErr(resp) THEN "err" ELSE IF ~IsInt(resp) THEN "notint" ELSE "ok"

\* Mutant: an empty reply is decoded like any other (to no bytes) and the
\* loop goes on.
ChunkOutcome_EmptyDecodes(resp) ==
    IF IsErr(resp) THEN "err" ELSE IF ~b64decode(resp).ok THEN "baddecode" ELSE "ok"

\* Mutant: a chunk that fails to decode is written as far as it decoded.
ChunkOutcome_SkipBad(resp) ==
    IF IsErr(resp) THEN "err" ELSE IF resp = <<>> THEN "empty" ELSE "ok"

\* pyrepl.py:206-213: how do_get takes a chunk reply.
ChunkOutcome(resp) ==
    IF IsErr(resp) THEN "err"
    ELSE IF resp = <<>> THEN "empty"
    ELSE IF ~b64decode(resp).ok THEN "baddecode"
    ELSE "ok"

\* pyrepl.py:189-201: the size reply; on success the local file is opened
\* (created or truncated).
GetStatRecv(k) ==
    /\ pc = "get_stat"
    /\ CanRecv(k)
    /\ Recv(k)
    /\ LET resp == Resp(k)
           lp   == LocalPath(xfer.remote, xfer.local)
       IN  IF StatOutcome(resp) = "err"
           THEN /\ printed' = Append(printed, Msg("resp", 0, <<>>, resp))
                /\ xfer' = [xfer EXCEPT !.st = "aborted"]
                /\ pc' = "prompt"
                /\ UNCHANGED lfs
           ELSE IF StatOutcome(resp) = "notint"
           THEN /\ printed' = Append(printed, Msg("err_stat", 0, <<>>, <<>>))
                /\ xfer' = [xfer EXCEPT !.st = "aborted"]
                /\ pc' = "prompt"
                /\ UNCHANGED lfs
           ELSE /\ xfer' = [xfer EXCEPT !.total = ParseInt(resp), !.local = lp,
                                        !.offset = 0, !.st = "open"]
                /\ lfs' = [q \in DOMAIN lfs \cup {lp} |-> IF q = lp THEN <<>> ELSE lfs[q]]
                /\ pc' = "get_loop"
                /\ UNCHANGED printed
    /\ UNCHANGED <<remoteVars, prompt, reqs, sentlog, ncmds, hist, otherVars>>

\* pyrepl.py:202-204, 215: the loop test; a chunk request, or the report.
GetLoop ==
    /\ pc = "get_loop"
    /\ IF xfer.offset < xfer.total
       THEN LET n == ChunkSize(xfer.total, xfer.offset)
            IN  /\ Send(build_expr_read_chunk_b64(xfer.remote, xfer.offset, n))
                /\ xfer' = [xfer EXCEPT !.n = n]
                /\ pc' = "get_chunk"
                /\ UNCHANGED printed
       ELSE /\ printed' = Append(printed, Msg("downloaded", xfer.total, xfer.local, <<>>))
            /\ xfer' = [xfer EXCEPT !.st = "done"]
            /\ pc' = "prompt"
            /\ UNCHANGED <<reqs, sentlog, stale>>
    /\ UNCHANGED <<remoteVars, lfs, prompt, wire, ncmds, faults, hist, otherVars>>

\* pyrepl.py:205-215: the chunk reply.
GetChunkRecv(k) ==
    /\ pc = "get_chunk"
    /\ CanRecv(k)
    /\ Recv(k)
    /\ LET resp == Resp(k)
           dec  == b64decode(resp)
       IN  IF ChunkOutcome(resp) = "err"
           THEN /\ printed' = Append(printed, Msg("resp", 0, <<>>, resp))
                /\ xfer' = [xfer EXCEPT !.st = "aborted"]
                /\ pc' = "prompt"
                /\ UNCHANGED lfs
           ELSE IF ChunkOutcome(resp) = "empty"
           THEN /\ printed' = Append(printed, Msg("downloaded", xfer.total, xfer.local, <<>>))
                /\ xfer' = [xfer EXCEPT !.st = "broke"]
                /\ pc' = "prompt"
                /\ UNCHANGED lfs
           ELSE IF ChunkOutcome(resp) = "baddecode"
           THEN /\ printed' = Append(printed, Msg("err_decode", xfer.offset, <<>>, <<>>))
                /\ xfer' = [xfer EXCEPT !.st = "aborted"]
                /\ pc' = "prompt"
                /\ UNCHANGED lfs
           ELSE /\ lfs' = [lfs EXCEPT ![xfer.local] = BCat(@, dec.data)]
                /\ xfer' = [xfer EXCEPT !.offset = NextOffset(@, xfer.n, dec.data),
                                        !.st = "run"]
                /\ pc' = "get_loop"
                /\ UNCHANGED printed
    /\ UNCHANGED <<remoteVars, prompt, reqs, sentlog, ncmds, hist, otherVars>>

\* Mutant: every write request truncates.
PutMode_Truncate(first) == "wb"

\* The mode of a PUT's next write request.
PutMode(first) == IF first THEN "wb" ELSE "ab"

\* pyrepl.py:226-233, 238: the next read of the local file; a write
\* request, or the report at end of file.
PutLoop ==
    /\ pc = "put_loop"
    /\ LET chunk == BRead(lfs[xfer.local], xfer.offset, CHUNK)
       IN  IF chunk = <<>>
           THEN /\ printed' = Append(printed, Msg("uploaded", xfer.total, xfer.remote, <<>>))
                /\ xfer' = [xfer EXCEPT !.st = "done"]
                /\ pc' = "prompt"
                /\ UNCHANGED <<reqs, sentlog, stale>>
           ELSE /\ Send(build_expr_write_chunk_b64(xfer.remote, b64encode(chunk),
                                                   PutMode(xfer.first)))
                /\ xfer' = [xfer EXCEPT !.first = FALSE, !.n = BLen(chunk)]
                /\ pc' = "put_ack"
                /\ UNCHANGED printed
    /\ UNCHANGED <<remoteVars, lfs, prompt, wire, ncmds, faults, hist, otherVars>>

\* Mutant: no reply counts as an acknowledgment.
IsAck_OrEmpty(resp) == resp = <<>> \/ TStartsWith(resp, <<"O","K">>)

\* Whether do_put takes a reply as the acknowledgment of a chunk.
IsAck(resp) == TStartsWith(resp, <<"O","K">>)

\* pyrepl.py:234-237: the acknowledgment.
PutAckRecv(k) ==
    /\ pc = "put_ack"
    /\ CanRecv(k)
    /\ Recv(k)
    /\ LET resp == Resp(k)
       IN  IF ~IsAck(resp)
           THEN /\ printed' = Append(printed,
                                     IF resp # <<>> THEN Msg("resp", 0, <<>>, resp)
                                     ELSE Msg("err_noresp", 0, <<>>, <<>>))
                /\ xfer' = [xfer EXCEPT !.st = "aborted"]
                /\ pc' = "prompt"
           ELSE /\ xfer' = [xfer EXCEPT !.offset = @ + xfer.n]
                /\ pc' = "put_loop"
                /\ UNCHANGED printed
    /\ UNCHANGED <<remoteVars, lfs, prompt, reqs, sentlog, ncmds, hist, otherVars>>

\* The service evaluates the oldest request it has received and writes the
\* output back.
RemoteEval(free) ==
    /\ reqs # <<>>
    /\ LET r == Eval(Head(reqs), free)
       IN  /\ rcwd' = r.cwd
           /\ rprev' = r.prev
           /\ rfs' = r.fs
           /\ wire' = wire \o r.out
           /\ stale' = IF Len(reqs) > 1 THEN TLen(wire \o r.out) ELSE stale
    /\ reqs' = Tail(reqs)
    /\ UNCHANGED <<rdirs, pc, xfer, lfs, printed, prompt, sentlog, ncmds, faults, hist,
                   otherVars>>

Init ==
    /\ rcwd = <<"/","a">>
    /\ rprev = NoPrev
    /\ rdirs = RemoteDirs
    /\ \E f \in InitRemoteFiles : rfs = [q \in {RemoteFile} |-> f]
    /\ \E g \in InitLocalFiles : lfs = [q \in {LocalFile} |-> g]
    /\ pc = "prompt"
    /\ xfer = NoXfer
    /\ printed = <<>>
    /\ prompt = <<>>
    /\ reqs = <<>>
    /\ wire = <<>>
    /\ sentlog = <<>>
    /\ ncmds = 0
    /\ faults = 0
    /\ stale = 0
    /\ rline = <<>>
    /\ routed = NotRouted
    /\ cdlog = <<>>
    /\ orig = rfs
    /\ hist = Hist(<<>>, NoXfer, FALSE)
    /\ sock = SockOpen
    /\ rx = RxStart(<<>>)

Next ==
    \/ PromptSend
    \/ \E k \in Cuts(wire) : PromptRecv(k)
    \/ \E line \in UserLines : Input(line)
    \/ InputEnd
    \/ \E k \in Cuts(wire) : CmdRecv(k)
    \/ \E k \in Cuts(wire) : GetStatRecv(k)
    \/ GetLoop
    \/ \E k \in Cuts(wire) : GetChunkRecv(k)
    \/ PutLoop
    \/ \E k \in Cuts(wire) : PutAckRecv(k)
    \/ \E free \in FreeReplies : RemoteEval(free)

Spec == Init /\ [][Next]_vars

----------------------------------------------------------------------------
(* Properties of the session (Spec)                                        *)

ReadReqs(log) == SelectSeq(log, LAMBDA r : r.op = "read")
WriteReqs(log) == SelectSeq(log, LAMBDA r : r.op = "write")
Printed(kind) == \E i \in 1..Len(printed) : printed[i].k = kind
CeilDiv(a, b) == (a + b - 1) \div b

\* The client is between commands: no handler is running.
BetweenCommands == pc \in {"prompt", "prompt_recv", "input", "closed"}

\* The stripped reply that the receive of this step returned.
StepResp == TStrip(TTake(wire, TLen(wire) - TLen(wire')))

\* The chunk plan: with T the total size the size query reported, the k-th
\* chunk request of a GET (k = 0, 1, ...) has offset k*65536 and size
\* min(65536, T - k*65536), whatever the replies decoded to; a GET whose
\* loop ran to the end has sent exactly ceil(T/65536) of them.
C1_GetChunkPlan ==
    xfer.kind = "get" =>
        LET reads == ReadReqs(sentlog)
            T     == xfer.total
        IN  /\ \A i \in 1..Len(reads) :
                   /\ reads[i].off = (i - 1) * 65536
                   /\ reads[i].size = IF 65536 < T - (i - 1) * 65536 THEN 65536
                                      ELSE T - (i - 1) * 65536
                   /\ reads[i].path = xfer.remote
            /\ Len(reads) <= CeilDiv(T, 65536)
            /\ xfer.st = "done" => Len(reads) = CeilDiv(T, 65536)

\* A GET of the 150000-byte file that ran to the end with offsets 0, 65536,
\* 131072 and sizes 65536, 65536, 18928, one reply having decoded short.
C1_Witness ==
    /\ xfer.kind = "get" /\ xfer.st = "done" /\ xfer.total = 150000
    /\ Len(ReadReqs(sentlog)) = 3
    /\ ReadReqs(sentlog)[3].off = 131072 /\ ReadReqs(sentlog)[3].size = 18928
    /\ BLen(lfs[xfer.local]) < xfer.total

\* C1: the chunk requests follow the plan, and a GET whose every chunk reply
\* is non-empty, is no error sentinel of the remote and decodes sends
\* exactly ceil(T/65536) of them: after such a reply the GET goes on to its
\* next request while fewer than that have been sent.
C1_GoodRepliesGiveAllChunks ==
    /\ []C1_GetChunkPlan
    /\ [][ ( /\ pc = "get_chunk" /\ pc' # "get_chunk"
             /\ StepResp # <<>> /\ ~IsSentinel(StepResp) /\ b64decode(StepResp).ok
             /\ Len(ReadReqs(sentlog)) < CeilDiv(xfer.total, 65536) )
           => pc' = "get_loop" ]_vars

\* C2: GET of the remote file, then PUT of the downloaded file back to the
\* same remote path, leaves the remote file as it was, whenever no reply of
\* either transfer is an error sentinel.  Stated here for the runs in which
\* every reply is also received complete (no idle timeout cut one), where
\* the claim fails all the same.
C2_RoundTrip ==
    ( /\ BetweenCommands
      /\ xfer.kind = "put" /\ xfer.st \in {"done", "aborted"}
      /\ hist.prevx.kind = "get" /\ hist.prevx.st \in {"done", "broke", "aborted"}
      /\ rcwd = <<"/","a">>
      /\ Resolve(rcwd, hist.prevx.remote) = RemoteFile
      /\ Resolve(rcwd, xfer.remote) = RemoteFile
      /\ xfer.local = LocalPath(hist.prevx.remote, hist.prevx.local)
      /\ ~hist.preverr /\ ~SawSentinel(printed)
      /\ faults = 0 /\ reqs = <<>> )
    => /\ RemoteFile \in DOMAIN rfs
       /\ rfs[RemoteFile] = orig[RemoteFile]

\* C3: a chunk reply that begins with ERR or fails to decode ends the GET in
\* that step: nothing is sent, the local file keeps what was written, no
\* success report is printed, and the client is back at the top of main's
\* loop; until the next line is read no chunk request follows and the file
\* stays as it is.
C3_GetAbortsOnBadChunk ==
    /\ [][ ( /\ pc = "get_chunk" /\ pc' # "get_chunk"
             /\ \/ TStartsWith(StepResp, <<"E","R","R">>)
                \/ StepResp # <<>> /\ ~b64decode(StepResp).ok )
           => /\ pc' = "prompt"
              /\ reqs' = reqs /\ sentlog' = sentlog
              /\ lfs' = lfs
              /\ xfer'.st = "aborted"
              /\ \A i \in 1..Len(printed') : printed'[i].k # "downloaded" ]_vars
    /\ [][ (xfer.kind = "get" /\ xfer.st = "aborted" /\ xfer' = xfer)
           => /\ lfs' = lfs
              /\ ReadReqs(sentlog') = ReadReqs(sentlog)
              /\ \A i \in 1..Len(printed') : printed'[i].k # "downloaded" ]_vars

\* A GET stopped by a bad chunk reply after an earlier chunk was written;
\* the partial file is there and the client is at its next prompt.
C3_Witness ==
    /\ xfer.kind = "get" /\ xfer.st = "aborted" /\ xfer.offset > 0
    /\ Len(ReadReqs(sentlog)) = 2
    /\ BLen(lfs[xfer.local]) = 65536
    /\ Printed("resp") \/ Printed("err_decode")
    /\ pc = "input"

\* C4: an acknowledgment that does not begin with OK (an empty one
\* included) ends the PUT in that step: nothing is sent after the
\* unacknowledged chunk, what was received is printed (a fixed message for
\* an empty reply) and no success report is printed, then or before the
\* next line is read.
C4_PutAbortsOnBadAck ==
    /\ [][ ( /\ pc = "put_ack" /\ pc' # "put_ack"
             /\ ~TStartsWith(StepResp, <<"O","K">>) )
           => /\ pc' = "prompt"
              /\ reqs' = reqs /\ sentlog' = sentlog
              /\ xfer'.st = "aborted"
              /\ printed' = Append(printed,
                                   IF StepResp # <<>> THEN Msg("resp", 0, <<>>, StepResp)
                                   ELSE Msg("err_noresp", 0, <<>>, <<>>))
              /\ \A i \in 1..Len(printed') : printed'[i].k # "uploaded" ]_vars
    /\ [][ (xfer.kind = "put" /\ xfer.st = "aborted" /\ xfer' = xfer)
           => /\ WriteReqs(sentlog') = WriteReqs(sentlog)
              /\ \A i \in 1..Len(printed') : printed'[i].k # "uploaded" ]_vars

\* A PUT stopped after its first chunk, with a chunk of the file left unsent.
C4_Witness ==
    /\ xfer.kind = "put" /\ xfer.st = "aborted"
    /\ Len(WriteReqs(sentlog)) = 1
    /\ xfer.offset + xfer.n < xfer.total
    /\ pc = "input"

\* C5: the first write request of a PUT truncates ("wb") and every later
\* one appends ("ab").
C5_PutModes ==
    LET writes == WriteReqs(sentlog)
    IN  \A i \in 1..Len(writes) : writes[i].mode = IF i = 1 THEN "wb" ELSE "ab"

\* A PUT that has sent a second write request.
C5_Witness == xfer.kind = "put" /\ Len(WriteReqs(sentlog)) >= 2

\* C6: a size reply that begins with ERR or is not an integer ends the GET
\* in that step with an error printed, no local file created or truncated
\* and nothing sent; no chunk request follows.
C6_GetAbortsOnBadStat ==
    /\ [][ ( /\ pc = "get_stat" /\ pc' # "get_stat"
             /\ \/ TStartsWith(StepResp, <<"E","R","R">>)
                \/ ~IsInt(StepResp) )
           => /\ pc' = "prompt"
              /\ reqs' = reqs /\ sentlog' = sentlog
              /\ lfs' = lfs
              /\ Len(printed') = 1 /\ printed'[1].k \in {"resp", "err_stat"} ]_vars
    /\ [](pc = "get_stat" => ReadReqs(sentlog) = <<>>)
    /\ [][ (xfer.kind = "get" /\ xfer.st = "aborted" /\ xfer' = xfer)
           => lfs' = lfs /\ ReadReqs(sentlog') = ReadReqs(sentlog) ]_vars

\* A GET stopped at its size reply: the error is printed, the local file r
\* does not exist, no chunk was requested.
C6_Witness ==
    /\ xfer.kind = "get" /\ xfer.st = "aborted"
    /\ ReadReqs(sentlog) = <<>>
    /\ LocalPath(xfer.remote, xfer.local) \notin DOMAIN lfs
    /\ Printed("resp") \/ Printed("err_stat")
    /\ pc = "input"

\* Whether a line is :get or :put without an argument, or a :put of a
\* local file that does not exist.
LocalError(line) ==
    \/ Strip(line) \in {<<":","g","e","t">>, <<":","p","u","t">>}
    \/ /\ StartsWith(line, <<":","p","u","t"," ">>)
       /\ Split(From(line, 5)) # <<>>
       /\ Split(From(line, 5))[1] \notin DOMAIN lfs

\* C7: a line with a local validation error is reported locally and sends
\* nothing: reading it adds no request, and up to the next input() the only
\* request sent is the pwd request of the next prompt.
C7_LocalErrorsSendNothing ==
    /\ [][ (pc = "input" /\ ncmds' = ncmds + 1 /\ LocalError(hist'.line))
           => /\ reqs' = reqs /\ sentlog' = <<>>
              /\ pc' = "prompt"
              /\ Len(printed') = 1
              /\ printed'[1].k \in {"usage_get", "usage_put", "err_nolocal"} ]_vars
    /\ []( LocalError(hist.line)
           => /\ sentlog \in {<<>>, <<build_expr_pwd>>}
              /\ Len(printed) = 1 )

\* A :put of a missing local file, reported, with only the next prompt's
\* pwd request sent since.
C7_Witness ==
    /\ hist.line = <<":","p","u","t"," ","z","z">>
    /\ pc = "input"
    /\ sentlog = <<build_expr_pwd>>
    /\ Printed("err_nolocal")

----------------------------------------------------------------------------
(* The cd expressions on the remote state (SpecCd)                         *)

\* The number of cd commands in a run.
MaxCd == 4

\* The arguments of the cd commands: none (<<>>), the toggle, the parent,
\* absolute and relative paths, the home reference, a missing directory.
CdArgs ==
    { <<>>, <<"-">>, <<".",".">>, <<"/","a">>, <<"/","a","/","b">>, <<"/">>, <<"b">>, <<"~">>, <<"/","n","o","p","e">> }

sessionVars == <<pc, xfer, lfs, printed, prompt, reqs, wire, stale, sentlog, ncmds, faults,
                 rline, routed, orig, hist, sock, rx>>

\* One cd command: build_expr_cd's expression is evaluated by the remote.
\* cdlog records, for each, its form, whether it raised, the working
\* directory before and after, the stored directory after, and the output.
CdRequest(arg, free) ==
    /\ Len(cdlog) < MaxCd
    /\ LET req == build_expr_cd(arg)
           r   == Eval(req, free)
       IN  /\ rcwd' = r.cwd
           /\ rprev' = r.prev
           /\ cdlog' = Append(cdlog, [op |-> req.op, ok |-> ~r.raised, before |-> rcwd,
                                      after |-> r.cwd, prev |-> r.prev, out |-> r.out])
    /\ UNCHANGED <<rfs, rdirs, sessionVars>>

InitCd ==
    /\ rcwd \in RemoteDirs
    /\ rprev = NoPrev
    /\ rdirs = RemoteDirs
    /\ rfs = [q \in {RemoteFile} |-> <<>>]
    /\ lfs = [q \in {LocalFile} |-> <<>>]
    /\ pc = "prompt"
    /\ xfer = NoXfer
    /\ printed = <<>>
    /\ prompt = <<>>
    /\ reqs = <<>>
    /\ wire = <<>>
    /\ sentlog = <<>>
    /\ ncmds = 0
    /\ faults = 0
    /\ stale = 0
    /\ rline = <<>>
    /\ routed = NotRouted
    /\ cdlog = <<>>
    /\ orig = rfs
    /\ hist = Hist(<<>>, NoXfer, FALSE)
    /\ sock = SockOpen
    /\ rx = RxStart(<<>>)

NextCd == \E arg \in CdArgs, free \in FreeReplies : CdRequest(arg, free)

SpecCd == InitCd /\ [][NextCd]_vars

\* Entries i+1..j of the log are all cd -.
AllDash(i, j) == \A m \in (i + 1)..j : cdlog[m].op = "cd_dash"

\* C8: a cd - with no cd before it prints exactly "No previous directory"
\* and changes nothing; after a successful cd A then cd B, the following
\* cd - commands alternate: the first makes A the working directory, the
\* second B, the third A again.
C8_CdDashToggles ==
    /\ \A j \in 1..Len(cdlog) :
           AllDash(0, j) =>
               /\ TStrip(cdlog[j].out) = ToText(<<"N","o"," ","p","r","e","v","i","o","u","s"," ","d","i","r","e","c","t","o","r","y">>)
               /\ cdlog[j].after = cdlog[j].before
               /\ cdlog[j].after = cdlog[1].before
    /\ \A i \in 1..Len(cdlog) : \A j \in 1..Len(cdlog) :
           ( /\ i + 1 < j
             /\ cdlog[i].op = "cd_path" /\ cdlog[i].ok
             /\ cdlog[i + 1].op = "cd_path" /\ cdlog[i + 1].ok
             /\ AllDash(i + 1, j) )
           => cdlog[j].after = IF (j - (i + 1)) % 2 = 1 THEN cdlog[i].after
                               ELSE cdlog[i + 1].after

\* cd A, cd B to two distinct directories, then cd - twice: A, then B.
C8_Witness ==
    /\ Len(cdlog) = 4
    /\ cdlog[1].op = "cd_path" /\ cdlog[1].ok
    /\ cdlog[2].op = "cd_path" /\ cdlog[2].ok
    /\ cdlog[1].after # cdlog[2].after
    /\ cdlog[3].op = "cd_dash" /\ cdlog[3].after = cdlog[1].after
    /\ cdlog[4].op = "cd_dash" /\ cdlog[4].after = cdlog[2].after
    /\ rcwd = cdlog[2].after

\* C9: every successful cd that is not the toggle (no argument, "..", a
\* path) stores the directory it left, so that a cd - right after it
\* returns there.
C9_EveryCdStoresPrevious ==
    \A i \in 1..Len(cdlog) :
        (cdlog[i].op \in {"cd_home", "cd_up", "cd_path"} /\ cdlog[i].ok) =>
            /\ cdlog[i].prev = cdlog[i].before
            /\ (i < Len(cdlog) /\ cdlog[i + 1].op = "cd_dash")
               => cdlog[i + 1].after = cdlog[i].before

\* Whether a cd printed the Changed directory to: confirmation.
Confirmed(e) == e.ok /\ TStartsWith(e.out, <<"C","h","a","n","g","e","d">>)

\* C16: the path in a cd's confirmation is the remote working directory as
\* it is after the change, for each form; the directory that cd - and
\* cd <path> store is the one read before the chdir, and cd .. goes to the
\* parent of the directory read before the chdir.
C16_ConfirmationIsPostChange ==
    \A i \in 1..Len(cdlog) :
        LET e == cdlog[i]
        IN  /\ (e.ok /\ e.after # e.before) => Confirmed(e)
            /\ Confirmed(e) =>
                   /\ e.out = ToText(<<"C","h","a","n","g","e","d"," ","d","i","r","e","c","t","o","r","y"," ","t","o",":"," ">>
                                     \o e.after \o <<"\n">>)
                   /\ e.op \in {"cd_dash", "cd_path"} => e.prev = e.before
                   /\ e.op = "cd_up" => e.after = dirname(e.before)

\* Each of the four forms has changed the directory and confirmed it.
C16_Witness ==
    /\ Len(cdlog) = 4
    /\ \A i \in 1..4 : Confirmed(cdlog[i]) /\ cdlog[i].after # cdlog[i].before
    /\ cdlog[1].op = "cd_path" /\ cdlog[2].op = "cd_up"
    /\ cdlog[3].op = "cd_dash" /\ cdlog[4].op = "cd_home"

----------------------------------------------------------------------------
(* The router on one line (SpecRoute)                                      *)

\* The longest of the lines enumerated over RouteAlphabet.
MaxLineLen == 3

RouteAlphabet == {"c", "d", " ", "x"}

\* The lines routed: the spec's examples, each command's forms, lines with
\* leading or trailing whitespace, first tokens that begin with cd, and
\* every line over RouteAlphabet up to MaxLineLen characters.
RouteLines ==
    { <<"p","w","d">>,
      <<"c","d"," ",".",".">>,
      <<"c","d">>,
      <<":","g","e","t"," ","a",".","t","x","t">>,
      <<":","g","e","t"," ","a"," ","b">>,
      <<"l","s"," ","-","l","a">>,
      <<"e","x","i","t">>,
      <<"q","u","i","t">>,
      <<":","r","a","w"," ","x">>,
      <<":","r","a","w">>,
      <<":","p","u","t"," ","l"," ","r">>,
      <<":","p","u","t"," ","l">>,
      <<":","p","u","t">>,
      <<":","g","e","t">>,
      <<"c","d","r","o","m">>,
      <<"c","d","r","o","m"," ","x">>,
      <<"c","d","-">>,
      <<" ","p","w","d">>,
      <<"p","w","d"," ">>,
      <<" ","e","x","i","t">>,
      <<"c","d"," ","/","a">>,
      <<"c","d"," ","-">>,
      <<"c","d"," ","~">>,
      <<"c","d"," "," ","x"," ","y">>,
      <<" ","c","d"," ",".",".">>,
      <<":","g","e","t","x">>,
      <<":","g","e","t"," ">>,
      <<":","p","u","t"," "," ">>,
      <<"c","d","\t","x">>,
      <<":","r","a","w"," ","_","_","G","E","T","_","_","x">>,
      <<":","r","a","w"," ","_","_","P","U","T","_","_">>,
      <<":","r","a","w"," "," ","x"," ">>,
      <<"c","d"," ",".","."," ">> }
    \cup UNION { [1..n -> RouteAlphabet] : n \in 0..MaxLineLen }

\* pyrepl.py:279: main routes the line it read.
Route ==
    /\ routed = NotRouted
    /\ routed' = CodeCommand(rline)
    /\ UNCHANGED <<remoteVars, pc, xfer, lfs, printed, prompt, reqs, wire, stale, sentlog, ncmds,
                   faults, rline, cdlog, orig, hist, sock, rx>>

InitRoute ==
    /\ rline \in RouteLines
    /\ routed = NotRouted
    /\ rcwd = <<"/","a">>
    /\ rprev = NoPrev
    /\ rdirs = RemoteDirs
    /\ rfs = [q \in {RemoteFile} |-> <<>>]
    /\ lfs = [q \in {LocalFile} |-> <<>>]
    /\ pc = "input"
    /\ xfer = NoXfer
    /\ printed = <<>>
    /\ prompt = <<>>
    /\ reqs = <<>>
    /\ wire = <<>>
    /\ sentlog = <<>>
    /\ ncmds = 0
    /\ faults = 0
    /\ stale = 0
    /\ cdlog = <<>>
    /\ orig = rfs
    /\ hist = Hist(<<>>, NoXfer, FALSE)
    /\ sock = SockOpen
    /\ rx = RxStart(<<>>)

NextRoute == Route

SpecRoute == InitRoute /\ [][NextRoute]_vars

\* The claim's rule set, applied to the trimmed line, first match first.
RuleCommand(line) ==
    LET t      == Strip(line)
        tokens == Split(t)
        rest   == IF Len(Split1(t)) > 1 THEN Strip(Split1(t)[2]) ELSE <<>>
        args   == Split(From(t, 5))
        first  == IF Len(args) > 0 THEN args[1] ELSE <<>>
        second == IF Len(args) > 1 THEN args[2] ELSE <<>>
    IN  IF t \in {<<"e","x","i","t">>, <<"q","u","i","t">>} THEN Cmd("Exit", <<>>, <<>>)
        ELSE IF t = <<":","r","a","w">> \/ StartsWith(t, <<":","r","a","w"," ">>) THEN Cmd("Raw", From(t, 5), <<>>)
        ELSE IF t = <<"p","w","d">> THEN Cmd("Pwd", <<>>, <<>>)
        ELSE IF tokens # <<>> /\ tokens[1] = <<"c","d">> THEN Cmd("ChangeDir", rest, <<>>)
        ELSE IF t = <<":","g","e","t">> \/ StartsWith(t, <<":","g","e","t"," ">>) THEN Cmd("Get", first, second)
        ELSE IF t = <<":","p","u","t">> \/ StartsWith(t, <<":","p","u","t"," ">>) THEN Cmd("Put", first, second)
        ELSE Cmd("ShellExec", line, <<>>)

\* C10: the router makes of every line the one command that the rule set
\* prescribes for the trimmed line, first match first; a line whose first
\* token only begins with cd, or that has leading whitespace, included.
C10_RouterFollowsRules ==
    routed # NotRouted => routed = RuleCommand(rline)

----------------------------------------------------------------------------
(* Request and response discipline of the session (Spec)                   *)

\* C11: the client sends a request only when no earlier request's response
\* is pending: every request sent before has been evaluated by the remote
\* and all that the remote wrote has been returned by a receive.
C11_OneOutstanding ==
    [][ Len(reqs') > Len(reqs) => reqs = <<>> /\ wire = <<>> ]_vars

\* C12: a line :raw <text> is handled as Raw and carries <text> exactly as
\* typed, whatever <text> is: never as a file transfer or a usage error.
C12_RawIsVerbatim ==
    (routed # NotRouted /\ StartsWith(rline, <<":","r","a","w"," ">>))
    => routed = Cmd("Raw", From(rline, 5), <<>>)

----------------------------------------------------------------------------
(* Transport faults and interrupts (SpecFaults)                            *)

\* pyrepl.py:265-269: an exception of the sendall or of the receive at the
\* top of main's loop is caught there; the prompt is built from "".
PromptRaises ==
    /\ pc \in {"prompt", "prompt_recv"}
    /\ faults < MaxFaults
    /\ faults' = faults + 1
    /\ prompt' = <<>>
    /\ pc' = "input"
    /\ UNCHANGED <<remoteVars, xfer, lfs, printed, reqs, wire, stale, sentlog, ncmds, hist,
                   otherVars>>

\* pyrepl.py:303, 188: the sendall of a command, or of do_get's size query,
\* raises (the peer is gone, or the non-blocking socket would block).  No
\* except clause is around it: the exception leaves main through finally.
InputSendRaises(line) ==
    /\ pc = "input"
    /\ ncmds < MaxCmds
    /\ ncmds' = ncmds + 1
    /\ LET d == Dispatch(line)
       IN  /\ d.sends # <<>>
           /\ xfer' = d.xfer
           /\ printed' = d.printed
    /\ sentlog' = <<>>
    /\ hist' = Hist(line, xfer, SawSentinel(printed))
    /\ pc' = "closed"
    /\ sock' = Finally("raised")
    /\ UNCHANGED <<remoteVars, lfs, prompt, reqs, wire, stale, faults, groundVars>>

\* pyrepl.py:204, 233: the sendall of a chunk request raises inside the
\* loop of do_get or do_put; the with statement closes the file.
LoopSendRaises ==
    /\ \/ pc = "get_loop" /\ xfer.offset < xfer.total
       \/ pc = "put_loop" /\ BLen(BRead(lfs[xfer.local], xfer.offset, CHUNK)) > 0
    /\ pc' = "closed"
    /\ sock' = Finally("raised")
    /\ UNCHANGED <<remoteVars, xfer, lfs, printed, prompt, reqs, wire, stale, sentlog, ncmds,
                   faults, hist, groundVars>>

\* pyrepl.py:173-177: select or recv raises something other than
\* BlockingIOError (the connection was reset) in a receive that is not the
\* one at the top of main's loop.
RecvRaises ==
    /\ pc \in {"cmd_recv", "get_stat", "get_chunk", "put_ack"}
    /\ pc' = "closed"
    /\ sock' = Finally("raised")
    /\ UNCHANGED <<remoteVars, xfer, lfs, printed, prompt, reqs, wire, stale, sentlog, ncmds,
                   faults, hist, groundVars>>

\* An interrupt signal anywhere but in input(): KeyboardInterrupt is no
\* Exception, so neither pyrepl.py:268 nor anything else catches it.
Interrupt ==
    /\ pc \in {"prompt", "prompt_recv", "cmd_recv", "get_stat", "get_loop", "get_chunk",
               "put_loop", "put_ack"}
    /\ pc' = "closed"
    /\ sock' = Finally("interrupted")
    /\ UNCHANGED <<remoteVars, xfer, lfs, printed, prompt, reqs, wire, stale, sentlog, ncmds,
                   faults, hist, groundVars>>

InitFaults ==
    /\ Init
    /\ rfs[RemoteFile] \in { << <<65, 5>> >>, << <<65, 65536>>, <<66, 1>> >> }
    /\ lfs[LocalFile] # <<>>

NextFaults ==
    \/ Next
    \/ PromptRaises
    \/ \E line \in UserLines : InputSendRaises(line)
    \/ LoopSendRaises
    \/ RecvRaises
    \/ Interrupt

SpecFaults == InitFaults /\ [][NextFaults]_vars

\* C13: no transport fault, on a send or on a receive, in main's loop, in
\* GET or in PUT, ends main by an exception: each is swallowed and the loop
\* goes on.
C13_FaultsSwallowed == sock.end # "raised"

\* C14: an interrupt at any point of the session ends main without an
\* unhandled exception, as end of input and an Exit command do; whichever
\* way main ends, the socket has been shut down and closed exactly once and
\* nothing is sent afterwards.
C14_GracefulTermination ==
    /\ [](sock.end # "interrupted")
    /\ [](pc = "closed" => sock.shuts = 1 /\ sock.closes = 1)
    /\ [](pc # "closed" => sock = SockOpen)
    /\ [][pc = "closed" => pc' = "closed" /\ sentlog' = sentlog]_vars

----------------------------------------------------------------------------
(* recv_until_idle, one call (SpecRecv)                                    *)

\* pyrepl.py:177: sock.recv(4096)
RecvSize == 4096

\* The longest output, in runs of equal bytes, that the remote writes, and
\* the number of writes it makes of it.
MaxRuns == 2
MaxWrites == 3

\* What the remote writes in reply to one request: one to MaxRuns runs of
\* bytes, short ones and ones longer than one recv takes.
RxOutputs ==
    { o \in UNION { [1..n -> { <<97, 1>>, <<98, 2>>, <<99, 4096>>, <<100, 5000>> }] :
                      n \in 0..MaxRuns } :
        \A i \in 1..(Len(o) - 1) : o[i][1] # o[i + 1][1] }

rxRest == <<rcwd, rprev, rfs, rdirs, pc, xfer, lfs, printed, prompt, reqs, wire, sentlog,
            ncmds, faults, rline, routed, cdlog, orig, hist, sock, stale>>

\* How many bytes one write of the remote puts into the socket.
WriteSizes(left) == {n \in {1, 2, 4096, left} : n <= left}

\* The remote writes the next n bytes of its output, whether or not the
\* client is still receiving.
RemoteWrite(n) ==
    /\ rx.peer = "open"
    /\ rx.nw < MaxWrites
    /\ n \in WriteSizes(BLen(rx.out) - rx.wpos)
    /\ n > 0
    /\ rx' = [rx EXCEPT !.sbuf = BCat(@, BRead(rx.out, rx.wpos, n)), !.wpos = @ + n,
                        !.nw = @ + 1]
    /\ UNCHANGED rxRest

\* The peer closes its end of the connection.
RemoteClose ==
    /\ rx.peer = "open"
    /\ rx' = [rx EXCEPT !.peer = "closed"]
    /\ UNCHANGED rxRest

\* Mutant: the chunk received goes in front of what was accumulated.
RecvChunk_Prepend ==
    /\ rx.st = "select"
    /\ rx.sbuf # <<>>
    /\ LET chunk == BTake(rx.sbuf, RecvSize)
       IN  rx' = [rx EXCEPT !.buf = BCat(chunk, @), !.sbuf = BDrop(@, RecvSize)]
    /\ UNCHANGED rxRest

\* pyrepl.py:173, 176-177, 182: the socket is readable; recv takes up to
\* 4096 bytes and buf.extend(chunk) appends them.
RecvChunk ==
    /\ rx.st = "select"
    /\ rx.sbuf # <<>>
    /\ LET chunk == BTake(rx.sbuf, RecvSize)
       IN  rx' = [rx EXCEPT !.buf = BCat(@, chunk), !.sbuf = BDrop(@, RecvSize)]
    /\ UNCHANGED rxRest

\* pyrepl.py:173-175, 183: the wait elapses with nothing readable (the
\* remote has been silent for the idle timeout); buf is returned.
RecvIdle ==
    /\ rx.st = "select"
    /\ rx.sbuf = <<>>
    /\ rx.peer = "open"
    /\ rx' = [rx EXCEPT !.st = "returned"]
    /\ UNCHANGED rxRest

\* pyrepl.py:180-181, 183: the peer has closed and all it wrote is read:
\* recv returns b"", buf is returned.
RecvEOF ==
    /\ rx.st = "select"
    /\ rx.sbuf = <<>>
    /\ rx.peer = "closed"
    /\ rx' = [rx EXCEPT !.st = "returned"]
    /\ UNCHANGED rxRest

InitRecv ==
    /\ \E o \in RxOutputs : rx = RxStart(o)
    /\ rline = <<>>
    /\ routed = NotRouted
    /\ rcwd = <<"/","a">>
    /\ rprev = NoPrev
    /\ rdirs = RemoteDirs
    /\ rfs = [q \in {RemoteFile} |-> <<>>]
    /\ lfs = [q \in {LocalFile} |-> <<>>]
    /\ pc = "input"
    /\ xfer = NoXfer
    /\ printed = <<>>
    /\ prompt = <<>>
    /\ reqs = <<>>
    /\ wire = <<>>
    /\ sentlog = <<>>
    /\ ncmds = 0
    /\ faults = 0
    /\ stale = 0
    /\ cdlog = <<>>
    /\ orig = rfs
    /\ hist = Hist(<<>>, NoXfer, FALSE)
    /\ sock = SockOpen

NextRecv ==
    \/ \E n \in {1, 2, 4096, BLen(rx.out) - rx.wpos} : RemoteWrite(n)
    \/ RemoteClose
    \/ RecvChunk
    \/ RecvIdle
    \/ RecvEOF

SpecRecv == InitRecv /\ [][NextRecv]_vars

\* C15: recv_until_idle returns what it has accumulated at the first wait
\* that elapses with nothing readable, or when the peer has closed; what it
\* has accumulated is always the first bytes the remote wrote, in the order
\* written, and nothing the remote wrote is lost between socket and buffer.
C15_ReceiveReturnsPrefix ==
    /\ [](/\ BCat(rx.buf, rx.sbuf) = BTake(rx.out, rx.wpos)
          /\ rx.buf = BTake(rx.out, BLen(rx.buf)))
    /\ [][ (rx.st = "select" /\ rx.sbuf = <<>> /\ rx' # rx /\ rx'.wpos = rx.wpos /\ rx'.peer = rx.peer)
           => rx'.st = "returned" /\ rx'.buf = rx.buf ]_vars
    /\ [][ rx.st = "returned" => rx'.st = "returned" /\ rx'.buf = rx.buf ]_vars

\* The remote wrote a part, stayed silent past the idle timeout and then
\* wrote the rest: the call has returned a non-empty strict prefix of the
\* output, and the rest sits unread in the socket.
C15_Witness ==
    /\ rx.st = "returned"
    /\ rx.buf # <<>>
    /\ BLen(rx.buf) < BLen(rx.out)
    /\ rx.wpos = BLen(rx.out)
    /\ rx.sbuf = BDrop(rx.out, BLen(rx.buf))

----------------------------------------------------------------------------
(* Reports of the transfers (Spec)                                         *)

\* C17: an empty chunk reply ends the GET's loop in that step with the
\* success report and no error message, nothing more being sent or written;
\* whenever a GET ends without an abort, by the loop test or by an empty
\* reply, what it printed is exactly the report with the total that the
\* size query returned and the destination path, whatever the local file
\* holds.
C17_GetReportsStatedTotal ==
    /\ [][ (pc = "get_chunk" /\ pc' # "get_chunk" /\ StepResp = <<>>)
           => /\ pc' = "prompt"
              /\ xfer'.st = "broke"
              /\ printed' = Append(printed, Msg("downloaded", xfer.total, xfer.local, <<>>))
              /\ sentlog' = sentlog /\ reqs' = reqs
              /\ lfs' = lfs ]_vars
    /\ [][ (pc = "get_stat" /\ pc' = "get_loop")
           => /\ xfer'.total = ParseInt(StepResp)
              /\ xfer'.local = LocalPath(xfer.remote, xfer.local) ]_vars
    /\ [][ (pc \in {"get_loop", "get_chunk"})
           => xfer'.total = xfer.total /\ xfer'.local = xfer.local ]_vars
    /\ []( (xfer.kind = "get" /\ xfer.st \in {"done", "broke"})
           => printed = <<Msg("downloaded", xfer.total, xfer.local, <<>>)>> )

\* A GET of the 150000-byte file whose second chunk reply was empty: the
\* report states 150000 bytes while the local file holds 65536.
C17_Witness ==
    /\ xfer.kind = "get" /\ xfer.st = "broke" /\ xfer.total = 150000
    /\ printed = <<Msg("downloaded", 150000, <<"r">>, <<>>)>>
    /\ BLen(lfs[<<"r">>]) = 65536
    /\ pc = "input"


\* The remote file that the finished PUT named holds what the local file
\* holds.
PutArrived ==
    /\ RAbs(xfer.remote) \in DOMAIN rfs
    /\ rfs[RAbs(xfer.remote)] = lfs[xfer.local]

\* C18: once a PUT has printed its Uploaded report and the remote has
\* applied every request sent to it, the remote file's content equals the
\* local file's content, whatever the local file's size (an empty file
\* included) and whatever the remote path held before.
C18_UploadedMeansEqual ==
    (xfer.kind = "put" /\ xfer.st = "done" /\ reqs = <<>>) => PutArrived

\* The same for local files of at least one byte.
C18_NonEmptyUploadedMeansEqual ==
    (xfer.kind = "put" /\ xfer.st = "done" /\ reqs = <<>> /\ lfs[xfer.local] # <<>>)
        => PutArrived

\* A PUT of the 65538-byte file over a remote file of other content has
\* reported and the remote holds the local content.
C18_NonEmptyWitness ==
    /\ xfer.kind = "put" /\ xfer.st = "done" /\ reqs = <<>>
    /\ BLen(lfs[xfer.local]) = 65538
    /\ orig[RemoteFile] # <<>>
    /\ PutArrived


----------------------------------------------------------------------------
(* Replies and the requests they answer (Spec)                             *)

\* C19: what a receive returns to the client (for its prompt, as a
\* command's output, as a GET's size or chunk, as a PUT's acknowledgment)
\* holds no character that the remote wrote in reply to a request other
\* than the one the client sent last.
C19_RepliesBelongToRequest ==
    [][ TLen(wire') < TLen(wire) => stale = 0 ]_vars


----------------------------------------------------------------------------
(* cd commands whose directory has gone (SpecCdGone)                       *)

\* The arguments of the cd commands: the toggle, two directories, a
\* relative path and a path that never existed.
GoneArgs == { <<"-">>, <<"/","a","/","b">>, <<"/">>, <<"b">>, <<"/","n","o","p","e">> }

\* Someone on the remote removes the empty directory d, which is neither
\* the working directory nor above it; os.chdir(d) raises from then on.
RemoveDir(d) ==
    /\ d \in rdirs
    /\ d # <<"/">>
    /\ rcwd # d /\ ~StartsWith(rcwd, d \o <<"/">>)
    /\ \A q \in (DOMAIN rfs) \cup rdirs : dirname(q) # d \/ q = d
    /\ rdirs' = rdirs \ {d}
    /\ UNCHANGED <<rcwd, rprev, rfs, sessionVars, cdlog>>

NextCdGone ==
    \/ \E arg \in GoneArgs, free \in FreeReplies : CdRequest(arg, free)
    \/ \E d \in RemoteDirs : RemoveDir(d)

SpecCdGone == InitCd /\ [][NextCdGone]_vars

\* The cd command of this step: the entry it appends to the log.
CdStep == cdlog'[Len(cdlog')]

\* C20: a cd <path> or cd - whose chdir raises leaves the remote working
\* directory and the stored previous directory as they were, and with them
\* everything that the evaluation of a later cd - reads.
C20_FailedCdChangesNothing ==
    [][ (Len(cdlog') > Len(cdlog) /\ CdStep.op \in {"cd_path", "cd_dash"} /\ ~CdStep.ok)
        => /\ rcwd' = rcwd
           /\ rprev' = rprev
           /\ UNCHANGED remoteVars ]_vars

\* A cd - failed because the stored directory /a/b has been removed, after
\* a cd to a missing path had failed too: the working directory is still /
\* and the stored directory still /a/b.
C20_Witness ==
    /\ Len(cdlog) >= 3
    /\ \E i \in 1..(Len(cdlog) - 1) : cdlog[i].op = "cd_path" /\ ~cdlog[i].ok
    /\ LET e == cdlog[Len(cdlog)]
       IN  /\ e.op = "cd_dash" /\ ~e.ok
           /\ e.before = <<"/">> /\ e.after = <<"/">>
           /\ e.prev = <<"/","a","/","b">>
    /\ rcwd = <<"/">> /\ rprev = <<"/","a","/","b">>
    /\ <<"/","a","/","b">> \notin rdirs

============================================================================
